---- MODULE Spec2Model ----
(***************************************************************************)
(* Model of mlt::Client (src/src/client.cpp): the per-connection session   *)
(* object of the milter.  The process-wide counter uniqueId and its mutex  *)
(* are shared by all Client constructions; every other member belongs to   *)
(* one instance.  Instances share nothing but uniqueId, so the constructor *)
(* is modelled for every client of Clients and the members that take part  *)
(* in the spool and session-data lifecycle are modelled for the instance   *)
(* Self.                                                                   *)
(*                                                                         *)
(* Environment: the spool directory is private to the process (no other    *)
(* program creates or removes files in it, fs::remove of an existing file  *)
(* succeeds); fopen may fail in an existing directory (permissions, disk   *)
(* full, stream table exhausted) and always fails below a path that is not *)
(* a directory.                                                            *)
(***************************************************************************)
EXTENDS Integers, Sequences, FiniteSets, TLC

\* ---- bounds of the model ----
NumClients == 3          \* Client objects constructed concurrently (SpecId)
NumOthers  == 1          \* other Clients constructed during Self's lifetime
MaxNames   == 2          \* distinct names fs::unique_path can produce
MaxStreams == 2          \* FILE streams the process can have open
MaxBufs    == 3          \* heap buffers the callers allocate for entries

Self    == 1             \* the instance whose lifecycle is followed
Clients == 1..NumClients
Others  == 2..(1 + NumOthers)
Names   == 1..MaxNames
Streams == 1..MaxStreams
Bufs    == 1..MaxBufs

nullptr == 0             \* null FILE* / null char*
NoPath  == <<>>          \* default-constructed (empty) fs::path

\* tmpdir arguments of createContentFile, by what the path is on disk
TmpDirs == {"dir", "missing", "file"}

\* mlt::mailflags: TYPE_NONE and, standing for every other enumerator of
\* client.h, TYPE_OTHER
MailFlags == {"TYPE_NONE", "TYPE_OTHER"}
\* keys the callbacks store in sessionData
Keys      == {"k1", "k2"}
Hostnames == {"mx.example.org"}

\* peer addresses handed to the constructor; gni is getnameinfo's result
Addrs ==
    { [sa_family |-> "AF_INET",  host |-> "203.0.113.5", port |-> "25",  gni |-> 0],
      [sa_family |-> "AF_INET6", host |-> "2001:db8::1", port |-> "587", gni |-> 0],
      [sa_family |-> "AF_INET",  host |-> "",            port |-> "",    gni |-> 1],
      [sa_family |-> "AF_INET6", host |-> "",            port |-> "",    gni |-> 1],
      [sa_family |-> "AF_UNIX",  host |-> "",            port |-> "",    gni |-> 0] }

\* hostaddr == nullptr, and the hostaddr of a call that takes none
NullAddr == [sa_family |-> "", host |-> "", port |-> "", gni |-> 0]

VARIABLES
    uniqueId,        \* Client::uniqueId, the process-wide counter
    uniqueIdLock,    \* holder of the mutex uniqueIdLock, 0 when free
    pc,              \* pc[t]: position of client t's constructor / lifetime
    reg,             \* reg[t]: the counter value ++uniqueId of t has read
    id,              \* id[t]: member id of client t
    ipAndPort,       \* Self: member ipAndPort
    hostname,        \* Self: member hostname
    fcontent,        \* Self: FILE *fcontent (nullptr or a stream)
    temp,            \* Self: fs::path temp
    fcontentStatus,  \* Self: bool fcontentStatus
    sessionData,     \* Self: map key -> buffer
    markedHeaders,   \* Self: sequence of <<name buffer, value buffer>>
    mailflags,       \* Self: mailflags
    optionalPreamble,\* Self: optionalPreamble
    genericError,    \* Self: genericError
    streams,         \* open FILE streams of the process: stream -> path
    disk,            \* names of the regular files in the spool directory
    heap,            \* heap[b]: "free", "live" or "corrupt"
    keepTempfiles,   \* the build defines _KEEP_TEMPFILES
    crashed,         \* the process was terminated
    call             \* the last member function call and its outcome

idVars    == <<uniqueId, uniqueIdLock, pc, reg, id, ipAndPort, hostname>>
spoolVars == <<fcontent, temp, fcontentStatus, streams, disk>>
dataVars  == <<sessionData, markedHeaders, heap>>
flagVars  == <<mailflags, optionalPreamble, genericError>>
vars == <<uniqueId, uniqueIdLock, pc, reg, id, ipAndPort, hostname, fcontent, temp,
          fcontentStatus, sessionData, markedHeaders, mailflags,
          optionalPreamble, genericError, streams, disk, heap, keepTempfiles,
          crashed, call>>

\* call: op, the member function; tmpdir, its argument; returned, whether it
\* returned a value, and ret, that value; step, the statement it returned
\* from; diag, the reports it wrote to std::cerr;
\* closed / removed, whether its cleanup closed a stream / removed a file;
\* ub, whether its cleanup called fclose(nullptr) and the process survived;
\* freed, the number of buffers it handed to free; hostaddr, the address the
\* constructor was given
NoCall == [op |-> "none", tmpdir |-> "", returned |-> FALSE, ret |-> FALSE,
           step |-> "", diag |-> 0, closed |-> FALSE, removed |-> FALSE,
           ub |-> FALSE, freed |-> 0, hostaddr |-> NullAddr]

\* ---- Client::prepareIPandPort ----
\* mutation: the IPv6 case formats like the IPv4 case
prepareIPandPortNoBrackets(hostaddr) ==
    IF hostaddr.sa_family \notin {"AF_INET", "AF_INET6"} THEN "unknown"
    ELSE IF hostaddr.gni # 0 THEN "unknown"
    ELSE hostaddr.host \o ":" \o hostaddr.port

prepareIPandPort(hostaddr) ==
    IF hostaddr.sa_family \notin {"AF_INET", "AF_INET6"} THEN "unknown"
    ELSE IF hostaddr.gni # 0 THEN "unknown"
    ELSE IF hostaddr.sa_family = "AF_INET"
         THEN hostaddr.host \o ":" \o hostaddr.port
         ELSE "[" \o hostaddr.host \o "]:" \o hostaddr.port

\* diagnostics prepareIPandPort writes to std::cerr
prepareDiag(hostaddr) ==
    IF hostaddr.sa_family \notin {"AF_INET", "AF_INET6"} THEN 1
    ELSE IF hostaddr.gni # 0 THEN 1 ELSE 0

\* keep: the build defines _KEEP_TEMPFILES
InitBuild(keep) ==
    /\ uniqueId = 0
    /\ uniqueIdLock = 0
    /\ pc = [t \in Clients |-> "start"]
    /\ reg = [t \in Clients |-> 0]
    /\ id = [t \in Clients |-> 0]
    /\ ipAndPort = ""
    /\ hostname = ""
    /\ fcontent = nullptr
    /\ temp = NoPath
    /\ fcontentStatus = FALSE
    /\ sessionData = <<>>
    /\ markedHeaders = <<>>
    /\ mailflags = "TYPE_NONE"
    /\ optionalPreamble = TRUE
    /\ genericError = FALSE
    /\ streams = <<>>
    /\ disk = {}
    /\ heap = [b \in Bufs |-> "free"]
    /\ keepTempfiles = keep
    /\ crashed = FALSE
    /\ call = NoCall

\* the default build
Init == InitBuild(FALSE)

\* the build with _KEEP_TEMPFILES defined
InitKeep == InitBuild(TRUE)

\* ---- Client::Client: the initializer of id, one step per statement ----
\* mutation: the initializer does not take uniqueIdLock
LockNoMutex(t) ==
    /\ ~crashed
    /\ pc[t] = "start"
    /\ pc' = [pc EXCEPT ![t] = "locked"]
    /\ UNCHANGED <<uniqueId, uniqueIdLock, reg, id, ipAndPort, hostname,
                   spoolVars, dataVars, flagVars, keepTempfiles, crashed, call>>

Lock(t) ==
    /\ ~crashed
    /\ pc[t] = "start"
    /\ uniqueIdLock = 0
    /\ uniqueIdLock' = t
    /\ pc' = [pc EXCEPT ![t] = "locked"]
    /\ UNCHANGED <<uniqueId, reg, id, ipAndPort, hostname, spoolVars, dataVars,
                   flagVars, keepTempfiles, crashed, call>>

\* ++uniqueId on a plain integer is a read followed by a write
Load(t) ==
    /\ ~crashed
    /\ pc[t] = "locked"
    /\ reg' = [reg EXCEPT ![t] = uniqueId]
    /\ pc' = [pc EXCEPT ![t] = "loaded"]
    /\ UNCHANGED <<uniqueId, uniqueIdLock, id, ipAndPort, hostname, spoolVars,
                   dataVars, flagVars, keepTempfiles, crashed, call>>

Increment(t) ==
    /\ ~crashed
    /\ pc[t] = "loaded"
    /\ uniqueId' = reg[t] + 1
    /\ reg' = [reg EXCEPT ![t] = 0]
    /\ pc' = [pc EXCEPT ![t] = "incremented"]
    /\ UNCHANGED <<uniqueIdLock, id, ipAndPort, hostname, spoolVars, dataVars,
                   flagVars, keepTempfiles, crashed, call>>

Unlock(t) ==
    /\ ~crashed
    /\ pc[t] = "incremented"
    /\ uniqueIdLock' = 0
    /\ pc' = [pc EXCEPT ![t] = "unlocked"]
    /\ UNCHANGED <<uniqueId, reg, id, ipAndPort, hostname, spoolVars, dataVars,
                   flagVars, keepTempfiles, crashed, call>>

\* the value the initializer's "return uniqueId" yields: the read happens
\* after unlock() and races with the increments of other constructors, so it
\* sees the counter as it is at that moment
ReturnedId(t) == uniqueId

\* mutation: id declared static, one id shared by every instance
assignIdStatic(t, v) == [x \in Clients |-> v]

\* id is a non-static member: the initializer's value goes to client t alone
assignId(t, v) == [id EXCEPT ![t] = v]

\* return uniqueId, then the remaining member initializers, for the
\* arguments (name, hostaddr); assert(hostaddr != nullptr) ends the process
ConstructFrom(t, name, hostaddr) ==
    /\ ~crashed
    /\ pc[t] = "unlocked"
    /\ IF hostaddr = NullAddr
       THEN /\ crashed' = TRUE
            /\ call' = [NoCall EXCEPT !.op = "Client", !.step = "assert"]
            /\ UNCHANGED <<id, pc, ipAndPort, hostname, fcontent, mailflags,
                           optionalPreamble, genericError, fcontentStatus, temp,
                           sessionData, markedHeaders>>
       ELSE /\ crashed' = FALSE
            /\ id' = assignId(t, ReturnedId(t))
            /\ pc' = [pc EXCEPT ![t] = "live"]
            /\ IF t = Self
               THEN /\ ipAndPort' = prepareIPandPort(hostaddr)
                    /\ hostname' = name
                    /\ call' = [NoCall EXCEPT !.op = "Client",
                                              !.returned = TRUE,
                                              !.diag = prepareDiag(hostaddr),
                                              !.hostaddr = hostaddr]
                    /\ fcontent' = nullptr
                    /\ mailflags' = "TYPE_NONE"
                    /\ optionalPreamble' = TRUE
                    /\ genericError' = FALSE
                    /\ fcontentStatus' = FALSE
                    /\ temp' = NoPath
                    /\ sessionData' = <<>>
                    /\ markedHeaders' = <<>>
               ELSE UNCHANGED <<ipAndPort, hostname, call, fcontent, mailflags,
                                optionalPreamble, genericError, fcontentStatus,
                                temp, sessionData, markedHeaders>>
    /\ UNCHANGED <<uniqueId, uniqueIdLock, reg, streams, disk, heap,
                   keepTempfiles>>

Construct(t) ==
    \E h \in Hostnames, a \in Addrs \cup {NullAddr} : ConstructFrom(t, h, a)


\* ---- the file system, as boost::filesystem sees it ----
\* a path is a tmpdir argument, NoPath, or <<tmpdir, name>> below a tmpdir
exists(p) ==
    IF p \in TmpDirs THEN p # "missing"
    ELSE IF p = NoPath THEN FALSE
    ELSE p[1] = "dir" /\ p[2] \in disk

is_directory(p) == p = "dir"

is_regular(p) ==
    IF p \in TmpDirs THEN p = "file"
    ELSE IF p = NoPath THEN FALSE
    ELSE p[1] = "dir" /\ p[2] \in disk

\* fs::unique_path: a random name, taken not to collide with a file on disk
unique_path(tmpdir) == { <<tmpdir, n>> : n \in Names \ disk }

\* fopen(path, "w+") can yield a stream only below an existing directory and
\* while the process has a free stream; open is the table of open streams
FreeStreams(open) == Streams \ DOMAIN open
CanOpen(p, open) == p[1] = "dir" /\ FreeStreams(open) # {}
NewStream(open) == CHOOSE s \in FreeStreams(open) : \A o \in FreeStreams(open) : s <= o

\* ---- Client::cleanup ----
\* mutation: cleanup trusts fcontentStatus alone
cleanupClosesStatusOnly == fcontentStatus

\* the condition under which cleanup calls fclose(fcontent)
cleanupCloses == fcontentStatus \/ fcontent # nullptr

\* fclose(nullptr) is undefined behaviour: the build either terminates the
\* process or carries on
cleanupUB == cleanupCloses /\ fcontent = nullptr

\* cleanup closes a stream that is open
cleanupClosesStream == cleanupCloses /\ fcontent \in DOMAIN streams

\* mutation: the wrong file-type test guards the removal
cleanupRemovesDirectory == ~keepTempfiles /\ exists(temp) /\ is_directory(temp)

\* mutation: the removal is compiled in whatever the build
cleanupRemovesAlways == exists(temp) /\ is_regular(temp)

cleanupRemoves == ~keepTempfiles /\ exists(temp) /\ is_regular(temp)

\* mutation: cleanup clears fcontent without fclose
cleanupStreamsNoClose == streams

cleanupStreams == IF cleanupCloses
                  THEN [s \in DOMAIN streams \ {fcontent} |-> streams[s]]
                  ELSE streams

cleanupFcontent == IF cleanupCloses THEN nullptr ELSE fcontent

cleanupDisk == IF cleanupRemoves THEN disk \ {temp[2]} ELSE disk

\* ---- Client::createContentFile ----
\* the test that makes createContentFile give up on tmpdir
dirCheckFails(tmpdir) == ~exists(tmpdir) /\ ~is_directory(tmpdir)

createContentFile(tmpdir, fopenOK, ub) ==
    /\ ~crashed
    /\ pc[Self] = "live"
    /\ ub = "crash" => cleanupUB
    /\ IF ub = "crash"
       THEN \* fclose(nullptr) in cleanup terminated the process
            /\ crashed' = TRUE
            /\ call' = [NoCall EXCEPT !.op = "createContentFile",
                                      !.tmpdir = tmpdir, !.step = "cleanup"]
            /\ UNCHANGED spoolVars
       ELSE /\ crashed' = FALSE
            /\ IF dirCheckFails(tmpdir)
               THEN /\ fcontent' = cleanupFcontent
                    /\ streams' = cleanupStreams
                    /\ disk' = cleanupDisk
                    /\ UNCHANGED <<temp, fcontentStatus>>
                    /\ fopenOK = FALSE
                    /\ call' = [NoCall EXCEPT !.op = "createContentFile",
                                   !.tmpdir = tmpdir, !.returned = TRUE, !.ret = FALSE,
                                   !.step = "dircheck", !.diag = 1,
                                   !.closed = cleanupClosesStream,
                                   !.removed = cleanupRemoves, !.ub = cleanupUB]
               ELSE \E p \in unique_path(tmpdir) :
                    /\ temp' = p
                    /\ fopenOK => CanOpen(p, cleanupStreams)
                    /\ IF fopenOK
                       THEN LET s == NewStream(cleanupStreams)
                            IN /\ fcontent' = s
                               /\ streams' = [x \in DOMAIN cleanupStreams \cup {s} |->
                                                IF x = s THEN p ELSE cleanupStreams[x]]
                               /\ disk' = cleanupDisk \cup {p[2]}
                       ELSE /\ fcontent' = nullptr
                            /\ streams' = cleanupStreams
                            /\ disk' = cleanupDisk
                    /\ fcontentStatus' = TRUE
                    /\ call' = [NoCall EXCEPT !.op = "createContentFile",
                                   !.tmpdir = tmpdir, !.returned = TRUE,
                                   !.ret = (fcontent' # nullptr),
                                   !.step = "fopen", !.diag = 0,
                                   !.closed = cleanupClosesStream,
                                   !.removed = cleanupRemoves, !.ub = cleanupUB]
    /\ UNCHANGED <<idVars, dataVars, flagVars, keepTempfiles>>

\* ---- heap buffers of the entries ----
\* free(b): releasing a buffer that is not live corrupts the heap
free(h, b) == [h EXCEPT ![b] = IF h[b] = "live" THEN "free" ELSE "corrupt"]

RECURSIVE freeAll(_, _)
freeAll(h, ptrs) ==
    IF ptrs = <<>> THEN h
    ELSE freeAll(IF Head(ptrs) # nullptr THEN free(h, Head(ptrs)) ELSE h, Tail(ptrs))

\* the keys of sessionData in the map's iteration order
RECURSIVE keySeq(_)
keySeq(ks) ==
    IF ks = {} THEN <<>>
    ELSE LET k == CHOOSE x \in ks : \A y \in ks : (x = "k1" \/ y # "k1")
         IN <<k>> \o keySeq(ks \ {k})

\* the pointers the loop over sessionData hands to free, in order
sessionDataPtrs == [i \in 1..Len(keySeq(DOMAIN sessionData)) |->
                       sessionData[keySeq(DOMAIN sessionData)[i]]]

\* mutation: the loop over markedHeaders releases hit->first only
RECURSIVE headerPtrsFirstOnly(_)
headerPtrsFirstOnly(hs) ==
    IF hs = <<>> THEN <<>>
    ELSE <<Head(hs)[1]>> \o headerPtrsFirstOnly(Tail(hs))

\* the pointers the loop over markedHeaders hands to free, in order
RECURSIVE headerPtrs(_)
headerPtrs(hs) ==
    IF hs = <<>> THEN <<>>
    ELSE <<Head(hs)[1], Head(hs)[2]>> \o headerPtrs(Tail(hs))

\* ---- Client::reset ----
\* the number of buffers the two loops hand to free
freedCount == Cardinality({i \in DOMAIN sessionDataPtrs : sessionDataPtrs[i] # nullptr})
              + Cardinality({i \in DOMAIN headerPtrs(markedHeaders) :
                               headerPtrs(markedHeaders)[i] # nullptr})

\* mutation: reset forgets to clear genericError
resetScalarsKeepError ==
    /\ mailflags' = "TYPE_NONE"
    /\ optionalPreamble' = TRUE
    /\ genericError' = genericError
    /\ fcontentStatus' = FALSE

\* the assignments that end reset
resetScalars ==
    /\ mailflags' = "TYPE_NONE"
    /\ optionalPreamble' = TRUE
    /\ genericError' = FALSE
    /\ fcontentStatus' = FALSE

reset ==
    /\ ~crashed
    /\ pc[Self] = "live"
    /\ heap' = freeAll(freeAll(heap, sessionDataPtrs), headerPtrs(markedHeaders))
    /\ sessionData' = <<>>
    /\ markedHeaders' = <<>>
    /\ resetScalars
    /\ call' = [NoCall EXCEPT !.op = "reset", !.freed = freedCount]
    /\ UNCHANGED <<idVars, fcontent, temp, streams, disk, keepTempfiles, crashed>>

\* ---- Client::~Client ----
\* the body nulls no pointer and clears no container, so a second invocation
\* (pc "destroyed") walks the same entries again
Destructor(ub) ==
    /\ ~crashed
    /\ pc[Self] \in {"live", "destroyed", "redestroyed"}
    /\ ub = "crash" => cleanupUB
    /\ IF ub = "crash"
       THEN /\ crashed' = TRUE
            /\ call' = [NoCall EXCEPT !.op = "~Client", !.step = "cleanup"]
            /\ UNCHANGED <<pc, spoolVars, dataVars>>
       ELSE /\ crashed' = FALSE
            /\ fcontent' = cleanupFcontent
            /\ streams' = cleanupStreams
            /\ disk' = cleanupDisk
            /\ heap' = freeAll(freeAll(heap, sessionDataPtrs), headerPtrs(markedHeaders))
            /\ pc' = [pc EXCEPT ![Self] = IF pc[Self] = "live" THEN "destroyed"
                                          ELSE "redestroyed"]
            /\ call' = [NoCall EXCEPT !.op = "~Client", !.freed = freedCount,
                                      !.closed = cleanupClosesStream,
                                      !.removed = cleanupRemoves, !.ub = cleanupUB]
            /\ UNCHANGED <<temp, fcontentStatus, sessionData, markedHeaders>>
    /\ UNCHANGED <<uniqueId, uniqueIdLock, reg, id, ipAndPort, hostname, flagVars,
                   keepTempfiles>>

\* ---- what the milter callbacks do to the members between the calls ----
\* (client.h and the callbacks are not part of client.cpp; the members are
\* filled the way the release loops of reset and ~Client expect: every
\* pointer stored is a buffer of its own)
UnusedBufs == {b \in Bufs : heap[b] = "free"}
malloc == CHOOSE b \in UnusedBufs : \A o \in UnusedBufs : b <= o

\* store an entry for a new key, its value in a fresh buffer
AddSessionData(k) ==
    /\ ~crashed
    /\ pc[Self] = "live"
    /\ k \notin DOMAIN sessionData
    /\ UnusedBufs # {}
    /\ LET v == malloc
       IN /\ sessionData' = [x \in DOMAIN sessionData \cup {k} |->
                               IF x = k THEN v ELSE sessionData[x]]
          /\ heap' = [heap EXCEPT ![v] = "live"]
    /\ call' = NoCall
    /\ UNCHANGED <<idVars, spoolVars, flagVars, markedHeaders, keepTempfiles, crashed>>

\* append a (name, value) pair of two fresh buffers
AddMarkedHeader ==
    /\ ~crashed
    /\ pc[Self] = "live"
    /\ Cardinality(UnusedBufs) >= 2
    /\ LET n == malloc
           v == CHOOSE b \in UnusedBufs \ {n} : \A o \in UnusedBufs \ {n} : b <= o
       IN /\ markedHeaders' = Append(markedHeaders, <<n, v>>)
          /\ heap' = [heap EXCEPT ![n] = "live", ![v] = "live"]
    /\ call' = NoCall
    /\ UNCHANGED <<idVars, spoolVars, flagVars, sessionData, keepTempfiles, crashed>>

SetMailflags(f) ==
    /\ ~crashed
    /\ pc[Self] = "live"
    /\ f # mailflags
    /\ mailflags' = f
    /\ call' = NoCall
    /\ UNCHANGED <<idVars, spoolVars, dataVars, optionalPreamble, genericError,
                   keepTempfiles, crashed>>

SetOptionalPreamble(b) ==
    /\ ~crashed
    /\ pc[Self] = "live"
    /\ b # optionalPreamble
    /\ optionalPreamble' = b
    /\ call' = NoCall
    /\ UNCHANGED <<idVars, spoolVars, dataVars, mailflags, genericError,
                   keepTempfiles, crashed>>

SetGenericError(b) ==
    /\ ~crashed
    /\ pc[Self] = "live"
    /\ b # genericError
    /\ genericError' = b
    /\ call' = NoCall
    /\ UNCHANGED <<idVars, spoolVars, dataVars, mailflags, optionalPreamble,
                   keepTempfiles, crashed>>

\* ---- specifications ----
\* concurrent constructions of all clients
NextId ==
    \/ \E t \in Clients : Lock(t)
    \/ \E t \in Clients : Load(t)
    \/ \E t \in Clients : Increment(t)
    \/ \E t \in Clients : Unlock(t)
    \/ \E t \in Clients : Construct(t)

SpecId == Init /\ [][NextId]_vars

\* the lifetime of Self: its construction, then any sequence of calls
NextSelf ==
    \/ Lock(Self)
    \/ Load(Self)
    \/ Increment(Self)
    \/ Unlock(Self)
    \/ Construct(Self)
    \/ \E d \in TmpDirs, ok \in BOOLEAN, ub \in {"crash", "noop"} :
          createContentFile(d, ok, ub)
    \/ reset
    \/ \E ub \in {"crash", "noop"} : Destructor(ub)
    \/ \E k \in Keys : AddSessionData(k)
    \/ AddMarkedHeader
    \/ \E f \in MailFlags : SetMailflags(f)
    \/ \E b \in BOOLEAN : SetOptionalPreamble(b)
    \/ \E b \in BOOLEAN : SetGenericError(b)

SpecSelf == Init /\ [][NextSelf]_vars

\* the same lifetime in the build that keeps the spool files
SpecKeep == InitKeep /\ [][NextSelf]_vars

\* Self's spool, reset and entry operations while other clients are constructed
NextShared ==
    \/ \E t \in {Self} \cup Others : Lock(t)
    \/ \E t \in {Self} \cup Others : Load(t)
    \/ \E t \in {Self} \cup Others : Increment(t)
    \/ \E t \in {Self} \cup Others : Unlock(t)
    \/ \E t \in {Self} \cup Others : Construct(t)
    \/ \E d \in TmpDirs, ok \in BOOLEAN, ub \in {"crash", "noop"} :
          createContentFile(d, ok, ub)
    \/ reset
    \/ \E ub \in {"crash", "noop"} : Destructor(ub)
    \/ \E k \in Keys : AddSessionData(k)
    \/ AddMarkedHeader

SpecShared == Init /\ [][NextShared]_vars

\* everything
Next ==
    \/ NextShared
    \/ \E f \in MailFlags : SetMailflags(f)
    \/ \E b \in BOOLEAN : SetOptionalPreamble(b)
    \/ \E b \in BOOLEAN : SetGenericError(b)

Spec == Init /\ [][Next]_vars

\* ---- properties ----
Live == pc[Self] = "live" /\ ~crashed
Returned(op) == call.op = op /\ call.returned

\* C1: any two constructed clients have different ids, whatever the
\* interleaving of the lock, increment, unlock and return steps.
C1_IdsPairwiseDistinct ==
    \A i, j \in Clients :
        (i # j /\ pc[i] = "live" /\ pc[j] = "live") => id[i] # id[j]

\* C2: while Self is alive, fcontent is non-null exactly when fcontentStatus
\* is true.
C2_HandleIffStatus ==
    Live => ((fcontent # nullptr) <=> fcontentStatus)

\* C3: right after reset every member but id and ipAndPort has the value the
\* constructor gives it: no stream, no spool path, fcontentStatus false, no
\* entries, default flags.
C3_ResetGivesFreshObject ==
    (Live /\ call.op = "reset") =>
        /\ fcontent = nullptr
        /\ temp = NoPath
        /\ fcontentStatus = FALSE
        /\ sessionData = <<>>
        /\ markedHeaders = <<>>
        /\ mailflags = "TYPE_NONE"
        /\ optionalPreamble = TRUE
        /\ genericError = FALSE

\* C4: createContentFile on a directory that does not exist returns false
\* and leaves fcontentStatus false and fcontent null, whatever came before
\* (calls whose cleanup ran into fclose(nullptr) are left aside).
C4_MissingDirLeavesNoSpool ==
    (Live /\ Returned("createContentFile") /\ call.tmpdir = "missing" /\ ~call.ub) =>
        /\ call.ret = FALSE
        /\ fcontentStatus = FALSE
        /\ fcontent = nullptr

\* C5: when the directory test passes and fopen yields no stream,
\* createContentFile returns false and leaves fcontentStatus false and
\* fcontent null.
C5_FailedOpenLeavesNoSpool ==
    (Live /\ Returned("createContentFile") /\ call.step = "fopen"
          /\ call.ret = FALSE) =>
        /\ fcontentStatus = FALSE
        /\ fcontent = nullptr

\* C6: for every tmpdir that is not an existing directory createContentFile
\* returns false from the directory test, without going on to the statements
\* that create the spool file.
C6_NonDirectoryStopsAtCheck ==
    (Live /\ Returned("createContentFile") /\ call.tmpdir # "dir") =>
        /\ call.ret = FALSE
        /\ call.step = "dircheck"

\* C7: a createContentFile call that fails the directory test leaves the
\* stream, the spool path, fcontentStatus, the open streams and the files on
\* disk as they were before the call.
C7_FailedCheckChangesNothing ==
    [][(Live' /\ call'.op = "createContentFile" /\ call'.step = "dircheck")
         => UNCHANGED <<fcontent, temp, fcontentStatus, streams, disk>>]_vars

C9_ResetClearsState ==
    (Live /\ call.op = "reset") =>
        /\ sessionData = <<>>
        /\ markedHeaders = <<>>
        /\ fcontentStatus = FALSE
        /\ mailflags = "TYPE_NONE"
        /\ optionalPreamble = TRUE
        /\ genericError = FALSE

\* C9 witness: a reset that released an annotation and a header entry while
\* a spool was open.
C9_Witness ==
    /\ Live /\ call.op = "reset"
    /\ call.freed = 3
    /\ fcontent # nullptr
    /\ sessionData = <<>> /\ markedHeaders = <<>>

\* C10: once Self is constructed no step changes its id or its ipAndPort:
\* not createContentFile, reset, a new entry, nor the construction of
\* another client.
C10_IdentityImmutable ==
    [][pc[Self] = "live" => (id'[Self] = id[Self] /\ ipAndPort' = ipAndPort)]_vars

\* C10 witness: Self still has the id and descriptor of its construction
\* after a spool was opened, entries were released by reset, and another
\* client was constructed after it.
C10_Witness ==
    /\ Live /\ call.op = "reset" /\ call.freed > 0
    /\ fcontent # nullptr
    /\ \E t \in Others : pc[t] = "live" /\ id[t] > id[Self]
    /\ id[Self] = 1
    /\ ipAndPort = "[2001:db8::1]:587"

\* the buffers the entries of sessionData and markedHeaders point to
EntryBufs ==
    ({sessionData[k] : k \in DOMAIN sessionData}
        \cup {markedHeaders[i][1] : i \in DOMAIN markedHeaders}
        \cup {markedHeaders[i][2] : i \in DOMAIN markedHeaders})
    \ {nullptr}

\* C11: over insertions and resets that end with one run of the destructor,
\* every entry buffer is released exactly once: no buffer is ever released
\* twice, the buffers still allocated are exactly those of the entries
\* stored since the last reset, reset releases them all, and after the
\* destructor none is left allocated.
C11_EachEntryReleasedOnce ==
    pc[Self] # "redestroyed" =>
        /\ \A b \in Bufs : heap[b] # "corrupt"
        /\ pc[Self] = "live" => {b \in Bufs : heap[b] = "live"} = EntryBufs
        /\ (call.op = "reset" \/ pc[Self] = "destroyed") =>
               \A b \in Bufs : heap[b] = "free"

\* a reset ran after a spool file was opened (temp set, fcontentStatus false
\* again), and the destructor released the buffers stored after it
C11_Witness ==
    /\ pc[Self] = "destroyed"
    /\ temp # NoPath
    /\ ~fcontentStatus
    /\ call.op = "~Client"
    /\ call.freed = MaxBufs
    /\ \A b \in Bufs : heap[b] = "free"

\* C12: reset and the destructor can be run again: whatever the number of
\* runs, no entry buffer is handed to free a second time.
C12_RepeatedReleaseIsSafe ==
    \A b \in Bufs : heap[b] # "corrupt"

CleanupRan ==
    /\ call'.op \in {"createContentFile", "~Client"}
    /\ call'.step # "cleanup"

\* C14: in the build that keeps the spool files no step takes a file off the
\* disk, while cleanup still closes the open stream and clears fcontent;
\* the rest of the calls' effects is that of the default build: after the
\* destructor nothing is open, a failed directory test leaves fcontent
\* null, a successful createContentFile leaves one open stream on the new
\* file temp with fcontentStatus true.
C14_RetentionKeepsFiles ==
    [][keepTempfiles =>
          /\ disk \subseteq disk'
          /\ CleanupRan =>
                /\ ~call'.removed
                /\ (fcontent \in DOMAIN streams) => call'.closed
                /\ DOMAIN streams' \subseteq {fcontent'}
                /\ (call'.op = "~Client" \/ call'.step = "dircheck") =>
                       (fcontent' = nullptr /\ streams' = <<>>)
                /\ (call'.op = "createContentFile" /\ call'.ret) =>
                       /\ fcontentStatus'
                       /\ fcontent' \in DOMAIN streams'
                       /\ streams'[fcontent'] = temp'
                       /\ temp'[1] = "dir" /\ temp'[2] \in disk' \ disk
      ]_vars

\* two spool files were opened one after the other, both are still on disk
\* after the destructor closed the stream of the second
C14_Witness ==
    /\ keepTempfiles
    /\ pc[Self] = "destroyed"
    /\ call.op = "~Client"
    /\ call.closed
    /\ ~call.removed
    /\ Cardinality(disk) = MaxNames
    /\ streams = <<>>
    /\ fcontent = nullptr

\* C15: for every address handed to the constructor the construction goes
\* through, and ipAndPort is host:port for an IPv4 address, [host]:port for
\* an IPv6 address, and "unknown" for any other family and whenever
\* getnameinfo fails.
C15_DescriptorTotal ==
    /\ (pc[Self] = "unlocked" /\ ~crashed) =>
          \A a \in Addrs, h \in Hostnames : ENABLED ConstructFrom(Self, h, a)
    /\ (call.op = "Client" /\ call.hostaddr \in Addrs) =>
          /\ pc[Self] = "live"
          /\ ~crashed
          /\ call.returned
          /\ LET a == call.hostaddr
             IN  ipAndPort =
                   IF a.gni = 0 /\ a.sa_family = "AF_INET"
                   THEN a.host \o ":" \o a.port
                   ELSE IF a.gni = 0 /\ a.sa_family = "AF_INET6"
                   THEN "[" \o a.host \o "]:" \o a.port
                   ELSE "unknown"

\* an IPv6 peer was given its bracketed descriptor
C15_Witness ==
    /\ pc[Self] = "live"
    /\ call.op = "Client"
    /\ call.hostaddr.sa_family = "AF_INET6"
    /\ ipAndPort = "[2001:db8::1]:587"

\* C16: a call of createContentFile that returns false has written exactly
\* one diagnostic to std::cerr, whether it failed in the directory test or
\* in fopen.
C16_FailureReportedOnce ==
    (Returned("createContentFile") /\ ~call.ret) => call.diag = 1

\* C17: cleanup calls fclose on an open stream only: no call of
\* createContentFile or of the destructor has its cleanup call
\* fclose(nullptr), neither ending the process there nor carrying on.
C17_CleanupClosesOnlyOpen ==
    call.op \in {"createContentFile", "~Client"} =>
        (call.step # "cleanup" /\ ~call.ub)

\* the clients whose initializer has incremented the counter
Incremented == {t \in Clients : pc[t] \in {"incremented", "unlocked", "live"}}

\* C18: the counter starts at 0 and counts the constructions, whatever the
\* interleaving: it equals the number of initializers that are past their
\* increment, hence N once N constructions are complete; and a construction
\* that returns while every other one is complete or not yet begun, as all
\* do when they run one after another, gets as id one more than the number
\* of complete ones.
C18_CounterCountsConstructions ==
    /\ [](uniqueId = Cardinality(Incremented))
    /\ [][\A t \in Clients :
             (/\ pc[t] = "unlocked"
              /\ pc'[t] = "live"
              /\ \A u \in Clients \ {t} : pc[u] \in {"start", "live"})
             => id'[t] = 1 + Cardinality({u \in Clients : pc[u] = "live"})]_vars

\* every client is constructed, the k-th has id k and the counter is N
C18_Witness ==
    /\ \A t \in Clients : pc[t] = "live" /\ id[t] = t
    /\ uniqueId = NumClients

\* C19: no open stream is lost: every stream the session has open is the
\* one fcontent refers to, so at most one is open and none is left behind
\* when createContentFile replaces fcontent, also after a reset; once the
\* destructor has run none is open.
C19_NoHandleLost ==
    /\ DOMAIN streams \subseteq ({fcontent} \ {nullptr})
    /\ pc[Self] \in {"destroyed", "redestroyed"} => streams = <<>>

\* a stream left open across a reset (fcontentStatus false again) was closed
\* by the destructor
C19_Witness ==
    /\ pc[Self] = "destroyed"
    /\ call.op = "~Client"
    /\ call.closed
    /\ ~fcontentStatus
    /\ streams = <<>>
====
